---- MODULE Spec2Model ----
(***************************************************************************)
(* A model of the DCF valuation system: the data access, discount rate,   *)
(* projection and valuation code of src/dcf_calculator.py and the         *)
(* calculate_dcf callback of src/DCF.py, with the sensitivity chart and    *)
(* the assumptions table that render its stored result.                    *)
(*                                                                         *)
(* Numbers.  A Python/numpy float is modelled exactly, as a normalised     *)
(* rational <<n, d>> with d > 0.  The non-finite floats are the pairs with *)
(* d = 0: <<1,0>> is +inf, <<-1,0>> is -inf and <<0,0>> is NaN.  Python's   *)
(* None is the empty tuple.  A Python exception is a record [exc |-> kind].*)
(***************************************************************************)
EXTENDS Integers, Sequences, FiniteSets, TLC

VARIABLES
    pc,         \* position of the run: see the actions below
    request,    \* the arguments of the calculate_dcf callback
    provider,   \* what the external data collaborator (yfinance) holds
    dcf,        \* the DCFModel object built by calculate_dcf, or None
    store,      \* the value calculate_dcf returns to 'dcf-results-store'
    trace,      \* the pipeline steps performed so far, in order
    escaped,    \* an exception left calculate_dcf
    statements, \* input of get_key_metrics (SpecMetrics)
    metrics,    \* HistoricalMetrics: result of get_key_metrics
    assumptions, \* GrowthAssumptions: result of calculate_historical_averages
    cashflows,  \* CashFlowProjection: result of project_cash_flows
    figure,     \* what update_sensitivity_chart gave for the stored result
    table       \* what update_assumptions_table gave for the stored result

vars == <<pc, request, provider, dcf, store, trace, escaped,
          statements, metrics, assumptions, cashflows, figure, table>>

----------------------------------------------------------------------------
(* Floats as exact rationals *)

None == <<>>
NaN == <<0, 0>>
Inf == <<1, 0>>

IAbs(i) == IF i < 0 THEN -i ELSE i
Sgn(i) == IF i < 0 THEN -1 ELSE IF i > 0 THEN 1 ELSE 0

RECURSIVE GCD(_, _)
GCD(a, b) == IF b = 0 THEN a ELSE GCD(b, a % b)

Norm(n, d) ==
    IF d = 0 THEN <<Sgn(n), 0>>
    ELSE LET g == GCD(IAbs(n), IAbs(d))
             s == Sgn(d)
         IN  <<(s * n) \div g, (s * d) \div g>>

Q(n, d) == Norm(n, d)
Num(i) == <<i, 1>>
Zero == Num(0)
One == Num(1)

IsNone(x) == x = None
IsNaN(x) == x = NaN
IsFinite(x) == Len(x) = 2 /\ x[2] # 0

Neg(a) == <<-a[1], a[2]>>
FAbs(a) == <<IAbs(a[1]), a[2]>>

Add(a, b) ==
    IF a = NaN \/ b = NaN THEN NaN
    ELSE IF a[2] = 0 /\ b[2] = 0 THEN (IF a = b THEN a ELSE NaN)
    ELSE IF a[2] = 0 THEN a
    ELSE IF b[2] = 0 THEN b
    ELSE LET g == GCD(a[2], b[2])
         IN  Norm(a[1] * (b[2] \div g) + b[1] * (a[2] \div g), (a[2] \div g) * b[2])

Sub(a, b) == Add(a, Neg(b))

Mul(a, b) ==
    IF a[2] = 0 \/ b[2] = 0 THEN <<Sgn(a[1]) * Sgn(b[1]), 0>>
    ELSE LET g1 == GCD(IAbs(a[1]), b[2])
             g2 == GCD(IAbs(b[1]), a[2])
         IN  <<(a[1] \div g1) * (b[1] \div g2), (a[2] \div g2) * (b[2] \div g1)>>

Inv(b) ==
    IF b[2] = 0 THEN (IF b[1] = 0 THEN NaN ELSE Zero)
    ELSE <<Sgn(b[1]) * b[2], IAbs(b[1])>>

\* a / b where the division does not raise: b # 0, or numpy's float64 rule
\* for a zero divisor (x/0 = +-inf, 0/0 = nan).
Div(a, b) ==
    IF b = Zero THEN <<Sgn(a[1]), 0>> ELSE Mul(a, Inv(b))

\* a ** k for an integer k >= 0
RECURSIVE Pow(_, _)
Pow(a, k) == IF k <= 0 THEN One ELSE Mul(a, Pow(a, k - 1))

\* Comparisons of floats: every comparison with NaN is false, except !=.
Lt(a, b) == Sub(b, a)[1] > 0
Gt(a, b) == Lt(b, a)
Le(a, b) == a # NaN /\ b # NaN /\ ~Lt(b, a)
Eq(a, b) == a # NaN /\ b # NaN /\ a = b
Ne(a, b) == ~Eq(a, b)

\* np.mean of a non-empty list / sum of a list
RECURSIVE Sum(_)
Sum(s) == IF s = <<>> THEN Zero ELSE Add(Head(s), Sum(Tail(s)))
Mean(s) == Div(Sum(s), Num(Len(s)))

Range(s) == {s[i] : i \in 1..Len(s)}
Min(S) == CHOOSE x \in S : \A y \in S : x <= y

\* The outcome of a Python call: it raised an exception of some kind, or it
\* returned a value of some Python type ("float", "dict", "list", "NoneType").
Raise(kind) == [tag |-> "raise", exc |-> kind]
Return(type, v) == [tag |-> "return", type |-> type, val |-> v]
Raised(r) == r.tag = "raise"
ReturnedNone == Return("NoneType", None)

----------------------------------------------------------------------------
(* FinancialDataFetcher *)

(* A pandas DataFrame is [columns |-> the period labels in order,
   data |-> row label -> (period label -> cell)]; a missing cell is NaN.
   A Python dict is [keys |-> its keys in insertion order, at |-> key -> value]. *)

HistoryPeriods == 3

Dict(ks, f) == [keys |-> ks, at |-> f]
EmptyDict == Dict(<<>>, <<>>)
\* list(d.values())
Values(d) == [i \in 1..Len(d.keys) |-> d.at[d.keys[i]]]

\* income_stmt.columns[:3]
FirstColumns(df) ==
    SubSeq(df.columns, 1, IF Len(df.columns) < HistoryPeriods
                          THEN Len(df.columns) ELSE HistoryPeriods)

\* [metric_name, metric_name.replace(' ', ''), metric_name.title(), metric_name.lower()]
possible_names(metric_name) ==
    CASE metric_name = "Total Revenue" ->
            <<"Total Revenue", "TotalRevenue", "Total Revenue", "total revenue">>
      [] metric_name = "EBIT" -> <<"EBIT", "EBIT", "Ebit", "ebit">>
      [] metric_name = "EBITDA" -> <<"EBITDA", "EBITDA", "Ebitda", "ebitda">>
      [] metric_name = "Net Income" ->
            <<"Net Income", "NetIncome", "Net Income", "net income">>
      [] metric_name = "Tax Provision" ->
            <<"Tax Provision", "TaxProvision", "Tax Provision", "tax provision">>
      [] metric_name = "Operating Cash Flow" ->
            <<"Operating Cash Flow", "OperatingCashFlow", "Operating Cash Flow",
              "operating cash flow">>
      [] metric_name = "Capital Expenditure" ->
            <<"Capital Expenditure", "CapitalExpenditure", "Capital Expenditure",
              "capital expenditure">>
      [] metric_name = "Depreciation" ->
            <<"Depreciation", "Depreciation", "Depreciation", "depreciation">>
      [] metric_name = "Total Debt" ->
            <<"Total Debt", "TotalDebt", "Total Debt", "total debt">>
      [] metric_name = "Cash And Cash Equivalents" ->
            <<"Cash And Cash Equivalents", "CashAndCashEquivalents",
              "Cash And Cash Equivalents", "cash and cash equivalents">>

\* Series.fillna(0)
fillna(v) == IF v = NaN THEN Zero ELSE v

\* {year: 0 for year in years}
ZeroDict(years) == Dict(years, [y \in Range(years) |-> Zero])

\* df.loc[name, years] raises KeyError when a label of years is no column of df
\* (pandas >= 1.0); the bare except turns that into the all-zero dict.
_safe_extract(df, metric_name, years) ==
    LET names == possible_names(metric_name)
        hits == {i \in 1..Len(names) : names[i] \in DOMAIN df.data}
    IN  IF hits = {} THEN ZeroDict(years)
        ELSE LET name == names[Min(hits)]
             IN  IF \E y \in Range(years) : y \notin Range(df.columns)
                 THEN ZeroDict(years)
                 ELSE Dict(years, [y \in Range(years) |-> fillna(df.data[name][y])])

\* balance_sheet.loc[row, year] if row in balance_sheet.index else 0;
\* the lookup raises KeyError when year is no column.
LocOrZero(balance_sheet, row, year) ==
    IF row \in DOMAIN balance_sheet.data
    THEN (IF year \in Range(balance_sheet.columns)
          THEN Return("float", balance_sheet.data[row][year]) ELSE Raise("KeyError"))
    ELSE Return("float", Zero)

WorkingCapitalOf(current_assets, current_liabilities) ==
    IF Raised(current_assets) \/ Raised(current_liabilities)
    THEN Zero
    ELSE Sub(current_assets.val, current_liabilities.val)

_calculate_working_capital(balance_sheet, years) ==
    Dict(years,
         [y \in Range(years) |->
            WorkingCapitalOf(LocOrZero(balance_sheet, "Current Assets", y),
                             LocOrZero(balance_sheet, "Current Liabilities", y))])

\* stmts is what get_financial_statements returned: None when the fetch raised.
get_key_metrics(stmts) ==
    IF stmts = None THEN None
    ELSE LET income_stmt == stmts.income_statement
             balance_sheet == stmts.balance_sheet
             cash_flow == stmts.cash_flow
             years == FirstColumns(income_stmt)
         IN  [revenue |-> _safe_extract(income_stmt, "Total Revenue", years),
              ebit |-> _safe_extract(income_stmt, "EBIT", years),
              ebitda |-> _safe_extract(income_stmt, "EBITDA", years),
              net_income |-> _safe_extract(income_stmt, "Net Income", years),
              tax_expense |-> _safe_extract(income_stmt, "Tax Provision", years),
              operating_cf |-> _safe_extract(cash_flow, "Operating Cash Flow", years),
              capex |-> _safe_extract(cash_flow, "Capital Expenditure", years),
              depreciation |-> _safe_extract(cash_flow, "Depreciation", years),
              total_debt |-> _safe_extract(balance_sheet, "Total Debt", years),
              cash |-> _safe_extract(balance_sheet, "Cash And Cash Equivalents", years),
              working_capital |-> _calculate_working_capital(balance_sheet, years)]

\* self.info.get(key, default)
InfoGet(info, key, default) == IF key \in DOMAIN info THEN info[key] ELSE default

\* history is [raises |-> BOOLEAN, close |-> the Close column]; a raise in the
\* try block makes get_market_data return None.
get_market_data(info, history) ==
    IF history.raises THEN None
    ELSE [market_cap |-> InfoGet(info, "marketCap", Zero),
          shares_outstanding |-> InfoGet(info, "sharesOutstanding", Zero),
          current_price |-> IF history.close # <<>>
                            THEN history.close[Len(history.close)] ELSE Zero,
          beta |-> InfoGet(info, "beta", One)]

----------------------------------------------------------------------------
(* WACCCalculator *)

\* WACCCalculator.__init__ defaults
DefaultRiskFreeRate == Q(45, 1000)
DefaultMarketRiskPremium == Q(65, 1000)
WACCCalculator == [risk_free_rate |-> DefaultRiskFreeRate,
                   market_risk_premium |-> DefaultMarketRiskPremium]

_estimate_cost_of_debt == Q(5, 100)

\* not x, for x None or a dict given as a record of its entries
Falsy(x) == x = None \/ x = EmptyDict

\* Returns the float cost_of_equity when total value is zero, the breakdown
\* dict otherwise; raises on an empty total_debt dict or a None operand.
calculate_wacc(calc, financial_data, market_data, tax_rate) ==
    LET beta == market_data.beta
    IN  IF IsNone(beta) \/ IsNone(calc.risk_free_rate) \/ IsNone(calc.market_risk_premium)
        THEN Raise("TypeError")
        ELSE
        LET cost_of_equity == Add(calc.risk_free_rate, Mul(beta, calc.market_risk_premium))
        IN  IF financial_data.total_debt.keys = <<>> THEN Raise("IndexError")
            ELSE
            LET latest_year == financial_data.total_debt.keys[1]
                total_debt == FAbs(financial_data.total_debt.at[latest_year])
                market_value_equity == market_data.market_cap
            IN  IF IsNone(market_value_equity) THEN Raise("TypeError")
                ELSE
                LET total_value == Add(total_debt, market_value_equity)
                IN  IF Eq(total_value, Zero) THEN Return("float", cost_of_equity)
                    ELSE
                    LET weight_equity == Div(market_value_equity, total_value)
                        weight_debt == Div(total_debt, total_value)
                        cost_of_debt == _estimate_cost_of_debt
                        wacc == Add(Mul(weight_equity, cost_of_equity),
                                    Mul(Mul(weight_debt, cost_of_debt),
                                        Sub(One, tax_rate)))
                    IN  Return("dict",
                               [wacc |-> wacc,
                                cost_of_equity |-> cost_of_equity,
                                cost_of_debt |-> cost_of_debt,
                                weight_equity |-> weight_equity,
                                weight_debt |-> weight_debt,
                                beta |-> beta])

----------------------------------------------------------------------------
(* DCFModel *)

FallbackRevenueGrowth == Q(5, 100)
FallbackEbitMargin == Q(15, 100)
FallbackTaxRate == Q(25, 100)
FallbackCapexRatio == Q(5, 100)
DepreciationRatio == Q(3, 100)
WorkingCapitalRatio == Q(2, 100)

\* The values of the candidates [keep |-> BOOLEAN, val |-> float] that are kept,
\* in order: the list a loop builds with "if keep: rates.append(val)".
RECURSIVE Kept(_)
Kept(c) ==
    IF c = <<>> THEN <<>>
    ELSE IF Head(c).keep THEN <<Head(c).val>> \o Kept(Tail(c))
    ELSE Kept(Tail(c))

Candidate(keep, val) == [keep |-> keep, val |-> IF keep THEN val ELSE NaN]

\* The change from the newer to the older period, over the newer one.
GrowthOfPairReversed(newer, older) == Div(Sub(older, newer), FAbs(newer))

\* The pair (revenues[i], revenues[i+1]) qualifies when revenues[i+1] != 0.
GrowthPairQualifies(newer, older) == Ne(older, Zero)
GrowthOfPair(newer, older) == Div(Sub(newer, older), FAbs(older))

revenue_growth_rates(financial_data) ==
    LET revenues == Values(financial_data.revenue)
    IN  Kept([i \in 1..(Len(revenues) - 1) |->
                Candidate(GrowthPairQualifies(revenues[i], revenues[i + 1]),
                          GrowthOfPair(revenues[i], revenues[i + 1]))])

MarginQualifies(revenue) == Ne(revenue, Zero)

ebit_margins(financial_data) ==
    LET ks == financial_data.revenue.keys
    IN  Kept([i \in 1..Len(ks) |->
                Candidate(MarginQualifies(financial_data.revenue.at[ks[i]]),
                          Div(financial_data.ebit.at[ks[i]],
                              financial_data.revenue.at[ks[i]]))])

TaxQualifies(ebit) == Gt(ebit, Zero)

tax_rates(financial_data) ==
    LET ks == financial_data.revenue.keys
    IN  Kept([i \in 1..Len(ks) |->
                Candidate(TaxQualifies(financial_data.ebit.at[ks[i]]),
                          Div(FAbs(financial_data.tax_expense.at[ks[i]]),
                              financial_data.ebit.at[ks[i]]))])

capex_ratios(financial_data) ==
    LET ks == financial_data.revenue.keys
    IN  Kept([i \in 1..Len(ks) |->
                Candidate(MarginQualifies(financial_data.revenue.at[ks[i]]),
                          Div(FAbs(financial_data.capex.at[ks[i]]),
                              financial_data.revenue.at[ks[i]]))])

\* np.mean(rates), with no fallback for an empty list
MeanUnguarded(rates, fallback) == Mean(rates)

\* The fallback whenever fewer than two rates qualify
MeanOfTwoOr(rates, fallback) == IF Len(rates) >= 2 THEN Mean(rates) ELSE fallback

\* np.mean(rates) if rates else fallback
MeanOr(rates, fallback) == IF rates # <<>> THEN Mean(rates) ELSE fallback

calculate_historical_averages(financial_data) ==
    IF Falsy(financial_data) THEN None
    ELSE [revenue_growth |-> MeanOr(revenue_growth_rates(financial_data),
                                    FallbackRevenueGrowth),
          ebit_margin |-> MeanOr(ebit_margins(financial_data), FallbackEbitMargin),
          tax_rate |-> MeanOr(tax_rates(financial_data), FallbackTaxRate),
          capex_ratio |-> MeanOr(capex_ratios(financial_data), FallbackCapexRatio)]

\* One entry of the projection, from the base revenue, the averages and the year.
Projection(base_revenue, avg, year) ==
    LET projected_revenue == Mul(base_revenue, Pow(Add(One, avg.revenue_growth), year))
        projected_ebit == Mul(projected_revenue, avg.ebit_margin)
        nopat == Mul(projected_ebit, Sub(One, avg.tax_rate))
        projected_capex == Mul(projected_revenue, avg.capex_ratio)
        depreciation == Mul(projected_revenue, DepreciationRatio)
        change_in_wc == Mul(projected_revenue, WorkingCapitalRatio)
        fcf == Sub(Sub(Add(nopat, depreciation), projected_capex), change_in_wc)
    IN  [year |-> year,
         revenue |-> projected_revenue,
         ebit |-> projected_ebit,
         nopat |-> nopat,
         capex |-> projected_capex,
         depreciation |-> depreciation,
         change_in_wc |-> change_in_wc,
         fcf |-> fcf]

\* range(projection_years): the years counted from 0.
YearRangeFromZero(projection_years) ==
    [k \in 1..(IF projection_years[1] < 0 THEN 0 ELSE projection_years[1]) |-> k - 1]

\* range(1, projection_years + 1), for an integer projection_years
YearRange(projection_years) ==
    [k \in 1..(IF projection_years[1] < 0 THEN 0 ELSE projection_years[1]) |-> k]

\* range() accepts an int only: None and a fractional number raise TypeError
IsInt(x) == ~IsNone(x) /\ x[2] = 1

project_cash_flows(self) ==
    LET avg == calculate_historical_averages(self.financial_data)
    IN  IF Falsy(avg) THEN ReturnedNone
        ELSE IF self.financial_data.revenue.keys = <<>> THEN Raise("IndexError")
        ELSE IF ~IsInt(self.projection_years) THEN Raise("TypeError")
        ELSE LET base_revenue == Values(self.financial_data.revenue)[1]
                 years == YearRange(self.projection_years)
             IN  Return("list",
                        [k \in 1..Len(years) |-> Projection(base_revenue, avg, years[k])])

\* x / y in Python: a zero divisor raises ZeroDivisionError when both operands
\* are Python floats, and gives inf or nan when one of them is a numpy float64.
TrueDiv(x, y, numpy) ==
    IF Eq(y, Zero) /\ ~numpy THEN Raise("ZeroDivisionError")
    ELSE Return("float", Div(x, y))

\* Whether the projected cash flows are numpy float64: np.mean produced at
\* least one of the averages (a fallback constant is a Python float).
UsesNumpy(financial_data) ==
    \/ revenue_growth_rates(financial_data) # <<>>
    \/ ebit_margins(financial_data) # <<>>
    \/ tax_rates(financial_data) # <<>>
    \/ capex_ratios(financial_data) # <<>>

calculate_terminal_value(self, final_fcf, wacc) ==
    TrueDiv(Mul(final_fcf, Add(One, self.terminal_growth_rate)),
            Sub(wacc, self.terminal_growth_rate),
            UsesNumpy(self.financial_data))

\* The cash flow taken at its face value, not discounted.
PresentValueUndiscounted(self, projection, wacc) == Return("float", projection.fcf)

\* projection['fcf'] / (1 + wacc) ** projection['year']
PresentValue(self, projection, wacc) ==
    TrueDiv(projection.fcf, Pow(Add(One, wacc), projection.year),
            UsesNumpy(self.financial_data))

\* equity_value / shares_outstanding if shares_outstanding > 0 else 0
ValuePerShare(equity_value, shares_outstanding) ==
    IF IsNone(shares_outstanding) THEN Raise("TypeError")
    ELSE IF Gt(shares_outstanding, Zero)
         THEN Return("float", Div(equity_value, shares_outstanding))
         ELSE Return("float", Zero)

\* The upside without its guard on the price.
UpsideUnguarded(value_per_share, current_price) ==
    Div(Sub(value_per_share, current_price), current_price)

\* (value_per_share - current_price) / current_price if current_price > 0 else 0
UpsideDownside(value_per_share, current_price) ==
    IF Gt(current_price, Zero)
    THEN Div(Sub(value_per_share, current_price), current_price)
    ELSE Zero

\* calculate_dcf_valuation, first part: the guard, the averages, the WACC and
\* the projections.  Returns None where the method returns None.
WaccOf(self) ==
    LET avg == calculate_historical_averages(self.financial_data)
    IN  calculate_wacc(self.wacc_calculator, self.financial_data, self.market_data,
                       IF ~Falsy(avg) THEN avg.tax_rate ELSE FallbackTaxRate)

DiscountAndProject(self) ==
    IF Falsy(self.financial_data) \/ Falsy(self.market_data) THEN ReturnedNone
    ELSE
    LET avg == calculate_historical_averages(self.financial_data)
        wacc_out == WaccOf(self)
    IN  IF Raised(wacc_out) THEN wacc_out
        \* wacc_data['wacc'] on a float: 'float' object is not subscriptable
        ELSE IF wacc_out.type # "dict" THEN Raise("TypeError")
        ELSE
        LET proj == project_cash_flows(self)
        IN  IF Raised(proj) THEN proj
            ELSE IF proj.val = None \/ proj.val = <<>> THEN ReturnedNone
            ELSE Return("tuple", [assumptions |-> avg,
                                  wacc_breakdown |-> wacc_out.val,
                                  wacc |-> wacc_out.val.wacc,
                                  projections |-> proj.val])

\* Second part: present values, terminal value, enterprise and equity value.
EnterpriseAndEquity(self, wacc, projs) ==
    LET pvs == [k \in 1..Len(projs) |-> PresentValue(self, projs[k], wacc)]
    IN  IF \E k \in 1..Len(pvs) : Raised(pvs[k]) THEN Raise("ZeroDivisionError")
        ELSE
        LET pv_cash_flows == [k \in 1..Len(pvs) |-> pvs[k].val]
            final_fcf == projs[Len(projs)].fcf
            tv == calculate_terminal_value(self, final_fcf, wacc)
        IN  IF Raised(tv) THEN tv
            ELSE
            LET terminal_value == tv.val
                pv_terminal_value ==
                    Div(terminal_value, Pow(Add(One, wacc), self.projection_years[1]))
                enterprise_value == Add(Sum(pv_cash_flows), pv_terminal_value)
                latest_year == self.financial_data.total_debt.keys[1]
                net_debt == Sub(self.financial_data.total_debt.at[latest_year],
                                self.financial_data.cash.at[latest_year])
                equity_value == Sub(enterprise_value, net_debt)
            IN  Return("tuple", [enterprise_value |-> enterprise_value,
                                 equity_value |-> equity_value,
                                 terminal_value |-> terminal_value,
                                 pv_terminal_value |-> pv_terminal_value,
                                 pv_cash_flows |-> Sum(pv_cash_flows)])

\* Third part: the per-share value, the upside and the result dict.
PerShareAndResult(self, found, value) ==
    LET shares_outstanding == self.market_data.shares_outstanding
        vps == ValuePerShare(value.equity_value, shares_outstanding)
    IN  IF Raised(vps) THEN vps
        ELSE
        LET value_per_share == vps.val
            current_price == self.market_data.current_price
        IN  Return("dict",
                [enterprise_value |-> value.enterprise_value,
                 equity_value |-> value.equity_value,
                 value_per_share |-> value_per_share,
                 current_price |-> current_price,
                 upside_downside |-> UpsideDownside(value_per_share, current_price),
                 wacc |-> found.wacc,
                 terminal_value |-> value.terminal_value,
                 pv_terminal_value |-> value.pv_terminal_value,
                 pv_cash_flows |-> value.pv_cash_flows,
                 projections |-> found.projections,
                 wacc_breakdown |-> found.wacc_breakdown,
                 assumptions |-> found.assumptions])

calculate_dcf_valuation(self) ==
    LET Result(found, value) ==
            IF Raised(value) THEN value
            ELSE PerShareAndResult(self, found.val, value.val)
        Valued(found) ==
            IF Raised(found) \/ found.val = None THEN found
            ELSE Result(found, EnterpriseAndEquity(self, found.val.wacc,
                                                   found.val.projections))
    IN  Valued(DiscountAndProject(self))

\* DCFModel.__init__: the constructor fetches. info_raises is a failure of the
\* provider while FinancialDataFetcher.__init__ reads self.stock.info.
DCFModel(prov, ticker, projection_years, terminal_growth_rate) ==
    IF prov.info_raises THEN Raise("ConnectionError")
    ELSE Return("DCFModel",
            [ticker |-> ticker,
             projection_years |-> projection_years,
             terminal_growth_rate |-> terminal_growth_rate,
             wacc_calculator |-> WACCCalculator,
             financial_data |-> get_key_metrics(prov.statements),
             market_data |-> get_market_data(prov.info, prov.history)])

----------------------------------------------------------------------------
(* The calculate_dcf callback of src/DCF.py *)

Hundred == Num(100)

\* ticker.upper()
Upper(ticker) == CASE ticker = "aapl" -> "AAPL" [] OTHER -> ticker

\* A handler that lets the exceptions of the pipeline through.
except_ValueError(kind) == kind = "ValueError"

\* except Exception: every exception kind of the model derives from Exception
except_Exception(kind) == TRUE

FailureRecord(message) == [success |-> FALSE, error |-> message]
SuccessRecord(ticker, valuation) ==
    [ticker |-> Upper(ticker), valuation |-> valuation, success |-> TRUE]
NoValuationMessage == "Failed to fetch data or calculate valuation"

\* x / 100 for a callback argument: None raises TypeError
Percent(x) == IF IsNone(x) THEN Raise("TypeError") ELSE Return("float", Div(x, Hundred))

\* What a callback reads from 'dcf-results-store'.  Dash carries the stored
\* value to the callback as JSON, which has no non-finite numbers: such a
\* number arrives as itself (NaN, Infinity) or as null, depending on the
\* encoder.  Of a success record the callbacks below read only finite
\* numbers besides value_per_share.
FromStore(data) ==
    IF data = None \/ data = EmptyDict \/ ~data.success THEN {data}
    ELSE {[data EXCEPT !.valuation.value_per_share = v] :
            v \in IF IsFinite(data.valuation.value_per_share)
                  THEN {data.valuation.value_per_share}
                  ELSE {data.valuation.value_per_share, None}}

\* The integer nearest to a finite x, a tie going to the even one.
RoundHalfEven(x) ==
    LET floor == x[1] \div x[2]
        twice == 2 * (x[1] - floor * x[2])
    IN  IF twice < x[2] THEN floor
        ELSE IF twice > x[2] THEN floor + 1
        ELSE IF floor % 2 = 0 THEN floor ELSE floor + 1

\* f"{x:.1%}": the text is x as a percentage rounded to one decimal; the model
\* keeps the number of tenths of a percent that the text shows.
PercentText(x) == RoundHalfEven(Mul(x, Num(1000)))
\* f"{x:.2f}": the number of hundredths that the text shows.
DecimalText(x) == RoundHalfEven(Mul(x, Num(100)))

\* The market risk premium update_assumptions_table takes for granted.
TableMarketRiskPremium == Q(65, 1000)

\* update_assumptions_table(data): the Value column of the table, by row.
update_assumptions_table(data) ==
    IF data = None \/ data = EmptyDict \/ ~data.success
    THEN Return("Div", "No assumptions to display.")
    ELSE Return("DataTable",
            [revenue_growth |-> PercentText(data.valuation.assumptions.revenue_growth),
             ebit_margin |-> PercentText(data.valuation.assumptions.ebit_margin),
             tax_rate |-> PercentText(data.valuation.assumptions.tax_rate),
             capex_ratio |-> PercentText(data.valuation.assumptions.capex_ratio),
             beta |-> DecimalText(data.valuation.wacc_breakdown.beta),
             risk_free_rate |->
                PercentText(Sub(data.valuation.wacc_breakdown.cost_of_equity,
                                Mul(data.valuation.wacc_breakdown.beta,
                                    TableMarketRiskPremium))),
             market_risk_premium |-> PercentText(TableMarketRiskPremium)])

\* np.arange(0.06, 0.16, 0.01) and np.arange(0.01, 0.05, 0.005)
wacc_range == [i \in 1..10 |-> Q(5 + i, 100)]
terminal_growth_range == [j \in 1..8 |-> Q(5 + 5 * j, 1000)]
ReferenceGrowth == Q(25, 1000)
WaccCoefficient == Q(5, 10)
GrowthCoefficient == Q(3, 10)

\* The inner loop body of update_sensitivity_chart.  The grid values are
\* numpy floats, so a zero valuation['wacc'] divides to inf or nan.
adjusted_value(valuation_wacc, base_value, wacc, terminal_growth) ==
    Add(Add(base_value,
            Mul(Mul(Div(Sub(valuation_wacc, wacc), valuation_wacc), base_value),
                WaccCoefficient)),
        Mul(Mul(Div(Sub(terminal_growth, ReferenceGrowth), ReferenceGrowth), base_value),
            GrowthCoefficient))

\* The figure for "No data available"
NoDataFigure == [annotation |-> "No data available"]

\* update_sensitivity_chart(data): the heatmap's z matrix and its midpoint.
\* A null base value raises TypeError in the first multiplication.
update_sensitivity_chart(data) ==
    IF data = None \/ data = EmptyDict \/ ~data.success
    THEN Return("Figure", NoDataFigure)
    ELSE IF IsNone(data.valuation.value_per_share) THEN Raise("TypeError")
    ELSE Return("Figure",
            [z |-> [i \in 1..Len(wacc_range) |->
                      [j \in 1..Len(terminal_growth_range) |->
                          adjusted_value(data.valuation.wacc,
                                         data.valuation.value_per_share,
                                         wacc_range[i], terminal_growth_range[j])]],
             zmid |-> data.valuation.value_per_share])

----------------------------------------------------------------------------
(* The inputs: what the provider can hold and what the caller can ask *)

MaxColumns == 3
MaxYears == 3

\* A statement table with n period columns, labelled 1 (most recent) to n.
Frame(n, rows) == [columns |-> [i \in 1..n |-> i], data |-> rows]
Flat(n, v) == [i \in 1..n |-> Num(v)]

\* Revenue of period i of n: nothing, constant, or doubling towards the present.
RevenueKinds == {"zero", "flat", "doubling"}
RevenueOf(kind, n, i) ==
    CASE kind = "zero" -> 0
      [] kind = "flat" -> 100
      [] kind = "doubling" -> 100 * (2 ^ (n - i))

\* EBIT is nothing or a fifth of revenue; tax is a quarter of EBIT; capital
\* expenditure is a tenth of revenue, reported as an outflow.
EbitKinds == {"none", "fifth"}
EbitOf(kind, revenue) == IF kind = "fifth" THEN revenue \div 5 ELSE 0

StatementsOf(n, revenue_kind, ebit_kind, debt) ==
    LET rev(i) == RevenueOf(revenue_kind, n, i)
        ebit(i) == EbitOf(ebit_kind, rev(i))
    IN
    [income_statement |->
        Frame(n, [r \in {"Total Revenue", "EBIT", "EBITDA", "Net Income", "Tax Provision"} |->
                    CASE r = "Total Revenue" -> [i \in 1..n |-> Num(rev(i))]
                      [] r = "EBIT" -> [i \in 1..n |-> Num(ebit(i))]
                      [] r = "EBITDA" -> [i \in 1..n |-> Num(ebit(i) + 10)]
                      [] r = "Net Income" -> Flat(n, 10)
                      [] r = "Tax Provision" -> [i \in 1..n |-> Num(ebit(i) \div 4)]]),
     balance_sheet |->
        Frame(n, [r \in {"Total Debt", "Cash And Cash Equivalents",
                         "Current Assets", "Current Liabilities"} |->
                    CASE r = "Total Debt" -> Flat(n, debt)
                      [] r = "Cash And Cash Equivalents" -> Flat(n, 50)
                      [] r = "Current Assets" -> Flat(n, 30)
                      [] r = "Current Liabilities" -> Flat(n, 20)]),
     cash_flow |->
        Frame(n, [r \in {"Operating Cash Flow", "Capital Expenditure", "Depreciation"} |->
                    CASE r = "Operating Cash Flow" -> Flat(n, 25)
                      [] r = "Capital Expenditure" -> [i \in 1..n |-> Num(-(rev(i) \div 10))]
                      [] r = "Depreciation" -> Flat(n, 3)])]

\* <<market capitalisation, total debt>>: nothing at all, equity only, and
\* one fifth equity to four fifths debt.
CapitalStructures == {<<0, 0>>, <<250, 0>>, <<250, 1000>>}

\* The info dict: marketCap, and sharesOutstanding absent, null or a number;
\* beta is absent, so that the default 1.0 applies.
InfosOf(cap) ==
    {[marketCap |-> Num(cap)]} \cup
    {[marketCap |-> Num(cap), sharesOutstanding |-> sh] : sh \in {None, Num(100)}}

\* The info dict of a company without debt whose beta is 3.
HighBetaInfo == [marketCap |-> Num(250), sharesOutstanding |-> Num(100), beta |-> Num(3)]

Histories ==
    {[raises |-> TRUE, close |-> <<>>],
     [raises |-> FALSE, close |-> <<>>],
     [raises |-> FALSE, close |-> <<Num(12), Num(10)>>]}

DeadProvider ==
    [info_raises |-> TRUE, statements |-> None, info |-> [marketCap |-> Zero],
     history |-> [raises |-> TRUE, close |-> <<>>]]

Providers ==
    {DeadProvider} \cup
    UNION {
      {[info_raises |-> FALSE, statements |-> st, info |-> inf, history |-> h] :
          st \in {None} \cup {StatementsOf(n, k, e, cs[2]) :
                                n \in 0..MaxColumns, k \in RevenueKinds, e \in EbitKinds},
          inf \in InfosOf(cs[1]), h \in Histories} : cs \in CapitalStructures}
    \cup
    {[info_raises |-> FALSE, statements |-> StatementsOf(n, k, e, 0),
      info |-> HighBetaInfo, history |-> h] :
          n \in 0..MaxColumns, k \in RevenueKinds, e \in EbitKinds, h \in Histories}

\* The callback's arguments: rates in percent, or None for an empty input box.
RateInputs == {None, Num(5)}
GrowthInputs == {None, Q(5, 2), Num(5), Num(10)}
YearInputs == {None, Num(0)} \cup {Num(y) : y \in 2..MaxYears}

Request(n_clicks, ticker, rf, mrp, tg, years) ==
    [n_clicks |-> n_clicks, ticker |-> ticker,
     risk_free_rate |-> rf, market_risk_premium |-> mrp,
     terminal_growth_rate |-> tg, projection_years |-> years]

Requests ==
    {Request(0, "aapl", Num(5), Num(5), Q(5, 2), Num(3)),
     Request(1, "", Num(5), Num(5), Q(5, 2), Num(3))} \cup
    {Request(1, "aapl", rf, mrp, tg, y) :
        rf \in RateInputs, mrp \in RateInputs, tg \in GrowthInputs, y \in YearInputs}

----------------------------------------------------------------------------
(* The run of one calculate_dcf call *)

Init ==
    /\ pc = "idle"
    /\ request = None
    /\ provider = None
    /\ dcf = None
    /\ store = None
    /\ trace = <<>>
    /\ escaped = FALSE
    /\ statements = None
    /\ metrics = None
    /\ assumptions = None
    /\ cashflows = None
    /\ figure = None
    /\ table = None

unused == <<statements, metrics, assumptions, cashflows>>
views == <<figure, table>>

\* The try block ended with an exception of this kind.
Except(kind) ==
    IF except_Exception(kind)
    THEN store' = FailureRecord(kind) /\ escaped' = FALSE
    ELSE store' = store /\ escaped' = TRUE

\* The button is clicked (or the page loads, n_clicks = 0): Dash calls
\* calculate_dcf with the input boxes' values.
Click ==
    /\ pc = "idle"
    /\ \E req \in Requests, prov \in Providers :
          /\ request' = req
          /\ provider' = prov
    /\ pc' = "called"
    /\ UNCHANGED <<dcf, store, trace, escaped, unused, views>>

\* if n_clicks == 0 or not ticker: return {}
\* dcf = DCFModel(ticker, projection_years, terminal_growth_rate/100)
Construct ==
    /\ pc = "called"
    /\ IF request.n_clicks = 0 \/ request.ticker = ""
       THEN /\ store' = EmptyDict
            /\ pc' = "done"
            /\ UNCHANGED <<dcf, trace, escaped>>
       ELSE LET tg == Percent(request.terminal_growth_rate)
            IN  IF Raised(tg)
                THEN /\ Except(tg.exc)
                     /\ pc' = "done"
                     /\ UNCHANGED <<dcf, trace>>
                ELSE LET made == DCFModel(provider, request.ticker,
                                          request.projection_years, tg.val)
                     IN  /\ trace' = Append(trace, "fetch")
                         /\ IF Raised(made)
                            THEN /\ Except(made.exc)
                                 /\ pc' = "done"
                                 /\ UNCHANGED dcf
                            ELSE /\ dcf' = made.val
                                 /\ pc' = "constructed"
                                 /\ UNCHANGED <<store, escaped>>
    /\ UNCHANGED <<request, provider, unused, views>>

\* The rates of the request are read but the calculator keeps its defaults.
SetRatesIgnored ==
    /\ pc = "constructed"
    /\ IF Raised(Percent(request.risk_free_rate))
          \/ Raised(Percent(request.market_risk_premium))
       THEN Except("TypeError") /\ pc' = "done"
       ELSE pc' = "rates_set" /\ UNCHANGED <<store, escaped>>
    /\ UNCHANGED <<request, provider, dcf, trace, unused, views>>

\* dcf.wacc_calculator.risk_free_rate = risk_free_rate/100
\* dcf.wacc_calculator.market_risk_premium = market_risk_premium/100
SetRates ==
    /\ pc = "constructed"
    /\ LET rf == Percent(request.risk_free_rate)
           mrp == Percent(request.market_risk_premium)
       IN  IF Raised(rf)
           THEN /\ Except(rf.exc)
                /\ pc' = "done"
                /\ UNCHANGED dcf
           ELSE IF Raised(mrp)
           THEN /\ Except(mrp.exc)
                /\ pc' = "done"
                /\ dcf' = [dcf EXCEPT !.wacc_calculator.risk_free_rate = rf.val]
           ELSE /\ dcf' = [dcf EXCEPT !.wacc_calculator.risk_free_rate = rf.val,
                                      !.wacc_calculator.market_risk_premium = mrp.val]
                /\ pc' = "rates_set"
                /\ UNCHANGED <<store, escaped>>
    /\ UNCHANGED <<request, provider, trace, unused, views>>

\* valuation = dcf.calculate_dcf_valuation(), and the three ways out
Valuation ==
    /\ pc = "rates_set"
    /\ \E valuation \in {calculate_dcf_valuation(dcf)} :
          IF Raised(valuation) THEN Except(valuation.exc)
          ELSE /\ store' = IF valuation.val # None
                           THEN SuccessRecord(request.ticker, valuation.val)
                           ELSE FailureRecord(NoValuationMessage)
               /\ escaped' = FALSE
    /\ trace' = Append(trace, "valuation")
    /\ pc' = "done"
    /\ UNCHANGED <<request, provider, dcf, unused, views>>

\* The store has changed: Dash calls update_assumptions_table with its data.
Assumptions ==
    /\ pc = "done" /\ ~escaped
    /\ table = None
    /\ \E data \in FromStore(store) : table' = update_assumptions_table(data)
    /\ UNCHANGED <<pc, request, provider, dcf, store, trace, escaped, unused, figure>>

\* The store has changed: Dash calls update_sensitivity_chart with its data.
Sensitivity ==
    /\ pc = "done" /\ ~escaped
    /\ figure = None
    /\ \E data \in FromStore(store) : figure' = update_sensitivity_chart(data)
    /\ UNCHANGED <<pc, request, provider, dcf, store, trace, escaped, unused, table>>

Next == Click \/ Construct \/ SetRates \/ Valuation \/ Sensitivity \/ Assumptions

Spec == Init /\ [][Next]_vars

----------------------------------------------------------------------------
(* What a finished call produced *)

Done == pc = "done"
Returned == Done /\ ~escaped
Succeeded == Returned /\ store # EmptyDict /\ store.success
Failed == Returned /\ store # EmptyDict /\ ~store.success

\* The call is a real request: the button was clicked and a ticker was given.
RealRequest == request # None /\ request.n_clicks >= 1 /\ request.ticker # ""
\* calculate_dcf_valuation was called and the call has returned or raised.
ValuationRan == Done /\ trace # <<>> /\ trace[Len(trace)] = "valuation"
\* The valuation got as far as the terminal value: data, WACC and projections exist.
Projected(self) ==
    LET found == DiscountAndProject(self) IN ~Raised(found) /\ found.val # None
\* The valuation got as far as the per-share step: the equity value exists.
ReachesPerShare(self) ==
    /\ Projected(self)
    /\ LET found == DiscountAndProject(self).val
       IN  ~Raised(EnterpriseAndEquity(self, found.wacc, found.projections))

----------------------------------------------------------------------------
(* Claims about one calculate_dcf call (specification Spec) *)

\* C1: whenever the computed WACC is less than or equal to the terminal growth
\* rate, the valuation is refused (InvalidDiscountSpread): no ValuationResult
\* with a computed terminal value is ever returned for such a request.
C1_InvalidSpreadNeverValued ==
    (ValuationRan /\ Projected(dcf)
       /\ Le(DiscountAndProject(dcf).val.wacc, dcf.terminal_growth_rate))
    => Failed

\* C2: when |total debt| + market capitalisation of the most recent period is
\* zero, calculate_wacc still returns a breakdown dict, whose wacc is the CAPM
\* cost of equity, so that the valuation can read wacc_data['wacc'].
ZeroTotalValue(self) ==
    /\ ~Falsy(self.financial_data) /\ ~Falsy(self.market_data)
    /\ self.financial_data.total_debt.keys # <<>>
    /\ Eq(Add(FAbs(self.financial_data.total_debt.at[self.financial_data.total_debt.keys[1]]),
              self.market_data.market_cap), Zero)
C2_ZeroValueWaccIsBreakdown ==
    (ValuationRan /\ ZeroTotalValue(dcf))
    => LET out == WaccOf(dcf)
       IN  /\ ~Raised(out)
           /\ out.type = "dict"
           /\ out.val.wacc = Add(dcf.wacc_calculator.risk_free_rate,
                                 Mul(out.val.beta, dcf.wacc_calculator.market_risk_premium))
           /\ ~(Failed /\ store.error = "TypeError")

\* C3: a request whose projection horizon is outside [3,10] or whose rates are
\* missing is rejected before any computation: no fetch and no valuation step
\* is ever performed for it, and it never ends in a ValuationResult.
MinHorizon == 3
MaxHorizon == 10
InvalidParameters(req) ==
    \/ ~IsInt(req.projection_years)
    \/ req.projection_years[1] < MinHorizon
    \/ req.projection_years[1] > MaxHorizon
    \/ IsNone(req.risk_free_rate)
    \/ IsNone(req.market_risk_premium)
    \/ IsNone(req.terminal_growth_rate)
C3_InvalidRejectedFirst ==
    (RealRequest /\ InvalidParameters(request))
    => (trace = <<>> /\ ~Succeeded)

\* C4: when the income statement has no periods, get_key_metrics yields no
\* metrics (DataUnavailable) instead of a structure of empty mappings.
C4_NoPeriodsNoMetrics ==
    (dcf # None /\ provider.statements # None
       /\ provider.statements.income_statement.columns = <<>>)
    => dcf.financial_data = None

\* C5: for every real request, calculate_dcf ends by returning a success record
\* with the valuation or a failure record with an error message; no exception
\* leaves it.
C5_NoExceptionEscapes ==
    /\ ~escaped
    /\ (RealRequest /\ Done)
       => \/ (Succeeded /\ DOMAIN store = {"ticker", "valuation", "success"})
          \/ (Failed /\ DOMAIN store = {"success", "error"})
\* a failure of the provider, and a failure of the computation, both returned
C5_Witness ==
    /\ RealRequest /\ Failed
    /\ \/ provider.info_raises /\ store.error = "ConnectionError"
       \/ ValuationRan /\ store.error = "IndexError"

\* C6: value per share is equity value / shares outstanding when the shares are
\* a positive number and 0 when they are zero or unknown (absent or null); the
\* per-share step raises nothing.
C6_ValuePerShare ==
    (ValuationRan /\ ReachesPerShare(dcf))
    => /\ Succeeded
       /\ LET shares == dcf.market_data.shares_outstanding
          IN  store.valuation.value_per_share =
                 IF ~IsNone(shares) /\ Gt(shares, Zero)
                 THEN Div(store.valuation.equity_value, shares)
                 ELSE Zero

\* C7: upside/downside is (value per share - price) / price when the price is
\* positive and 0 when it is zero or unknown; once the per-share value exists
\* the step raises nothing.
C7_UpsideDownside ==
    (ValuationRan /\ ReachesPerShare(dcf) /\ ~IsNone(dcf.market_data.shares_outstanding))
    => /\ Succeeded
       /\ LET price == dcf.market_data.current_price
              value == store.valuation.value_per_share
          IN  /\ store.valuation.current_price = price
              /\ Gt(price, Zero)
                   => store.valuation.upside_downside = Div(Sub(value, price), price)
              /\ ~Gt(price, Zero) => store.valuation.upside_downside = Zero
\* an empty price history with a non-zero value per share
C7_Witness ==
    /\ Succeeded
    /\ provider.history.close = <<>>
    /\ store.valuation.current_price = Zero
    /\ store.valuation.value_per_share # Zero
    /\ store.valuation.upside_downside = Zero

\* C12: in every ValuationResult, pv_cash_flows is the sum over k = 1..N of
\* FCF_k / (1+WACC)^k, terminal_value is FCF_N*(1+g)/(WACC-g), pv_terminal_value
\* is terminal_value / (1+WACC)^N, enterprise_value is their sum, and
\* equity_value is enterprise_value less the most recent period's total debt
\* net of its cash.
C12_EnterpriseAndEquityValue ==
    Succeeded =>
        LET v == store.valuation
            p == v.projections
            N == dcf.projection_years[1]
            g == dcf.terminal_growth_rate
            latest == dcf.financial_data.total_debt.keys[1]
            net_debt == Sub(dcf.financial_data.total_debt.at[latest],
                            dcf.financial_data.cash.at[latest])
        IN  /\ Len(p) = N
            /\ v.pv_cash_flows =
                  Sum([k \in 1..N |-> Div(p[k].fcf, Pow(Add(One, v.wacc), k))])
            /\ v.terminal_value = Div(Mul(p[N].fcf, Add(One, g)), Sub(v.wacc, g))
            /\ v.pv_terminal_value = Div(v.terminal_value, Pow(Add(One, v.wacc), N))
            /\ v.enterprise_value = Add(v.pv_cash_flows, v.pv_terminal_value)
            /\ v.equity_value = Sub(v.enterprise_value, net_debt)
\* a valuation with cash flows over two years or more, a finite terminal value
\* and a net debt
C12_Witness ==
    /\ Succeeded
    /\ Len(store.valuation.projections) >= 2
    /\ Gt(store.valuation.projections[1].fcf, Zero)
    /\ IsFinite(store.valuation.terminal_value)
    /\ Gt(store.valuation.pv_cash_flows, Zero)
    /\ Gt(store.valuation.enterprise_value, store.valuation.equity_value)

\* C13: for every stored ValuationResult the grid cell at WACC w and terminal
\* growth t is base + (baseWACC - w)/baseWACC * base * 0.5
\* + (t - ref)/ref * base * 0.3, and the cell where w is the base WACC and t
\* the reference growth is the base value per share exactly.
C13_SensitivityGrid ==
    (Succeeded /\ figure # None) =>
        /\ ~Raised(figure)
        /\ LET base == store.valuation.value_per_share
               base_wacc == store.valuation.wacc
               ref == Q(25, 1000)
           IN  \A i \in 1..10, j \in 1..8 :
                  LET w == Q(5 + i, 100)
                      t == Q(5 + 5 * j, 1000)
                      cell == figure.val.z[i][j]
                  IN  /\ cell = Add(Add(base,
                                        Mul(Mul(Div(Sub(base_wacc, w), base_wacc), base),
                                            Q(1, 2))),
                                    Mul(Mul(Div(Sub(t, ref), ref), base), Q(3, 10)))
                      /\ (w = base_wacc /\ t = ref) => Eq(cell, base)

\* C14: the risk-free rate and the market risk premium of the request are in
\* effect when the WACC is computed: the cost of equity of every returned
\* breakdown is request risk-free rate + beta * request market risk premium
\* (the inputs are percentages), and the constructor defaults are what the
\* calculator holds only until the overrides.
C14_RatesPerRequest ==
    /\ ValuationRan =>
          /\ dcf.wacc_calculator.risk_free_rate = Div(request.risk_free_rate, Num(100))
          /\ dcf.wacc_calculator.market_risk_premium =
                Div(request.market_risk_premium, Num(100))
    /\ Succeeded =>
          store.valuation.wacc_breakdown.cost_of_equity =
             Add(Div(request.risk_free_rate, Num(100)),
                 Mul(dcf.market_data.beta, Div(request.market_risk_premium, Num(100))))
\* a valuation for rates that are not the defaults and a beta that is not 1
C14_Witness ==
    /\ Succeeded
    /\ dcf.market_data.beta = Num(3)
    /\ Div(request.risk_free_rate, Num(100)) # DefaultRiskFreeRate
    /\ Div(request.market_risk_premium, Num(100)) # DefaultMarketRiskPremium
    /\ store.valuation.wacc_breakdown.cost_of_equity = Q(20, 100)

\* C16: for every successful valuation the assumptions table shows the
\* risk-free rate and the market risk premium that the valuation's cost of
\* equity was computed from, those of the request.
C16_TableShowsRatesUsed ==
    (Succeeded /\ table # None) =>
        /\ ~Raised(table)
        /\ table.val.risk_free_rate =
              PercentText(Div(request.risk_free_rate, Num(100)))
        /\ table.val.market_risk_premium =
              PercentText(Div(request.market_risk_premium, Num(100)))

----------------------------------------------------------------------------
(* calculate_historical_averages on its own (specification SpecAverages) *)

MaxRevenue == 2

\* One period of history: revenue, EBIT, tax expense and capital expenditure.
PeriodInputs ==
    {[revenue |-> Num(100 * r), ebit |-> Num(e), tax_expense |-> Num(t), capex |-> Num(c)] :
        r \in 0..MaxRevenue, e \in {-20, 0, 20}, t \in {-5, 0}, c \in {-10, 0}}

\* The HistoricalMetrics get_key_metrics builds from the periods ps, most
\* recent first: every field has the same keys, and no value is missing.
MetricsOf(ps) ==
    LET years == [i \in 1..Len(ps) |-> i]
        field(f(_)) == Dict(years, [i \in 1..Len(ps) |-> f(ps[i])])
        rev(p) == p.revenue
        ebit(p) == p.ebit
        tax(p) == p.tax_expense
        capex(p) == p.capex
        zero(p) == Zero
    IN  [revenue |-> field(rev), ebit |-> field(ebit), ebitda |-> field(zero),
         net_income |-> field(zero), tax_expense |-> field(tax),
         operating_cf |-> field(zero), capex |-> field(capex),
         depreciation |-> field(zero), total_debt |-> field(zero),
         cash |-> field(zero), working_capital |-> field(zero)]

InitAverages ==
    /\ pc = "given"
    /\ \E n \in 0..HistoryPeriods :
          \E ps \in [1..n -> PeriodInputs] : metrics = MetricsOf(ps)
    /\ assumptions = None
    /\ request = None /\ provider = None /\ dcf = None /\ store = None
    /\ trace = <<>> /\ escaped = FALSE /\ statements = None /\ cashflows = None
    /\ figure = None /\ table = None

\* averages = self.calculate_historical_averages()
Average ==
    /\ pc = "given"
    /\ assumptions' = calculate_historical_averages(metrics)
    /\ pc' = "averaged"
    /\ UNCHANGED <<request, provider, dcf, store, trace, escaped,
                   statements, metrics, cashflows, views>>

NextAverages == Average

SpecAverages == InitAverages /\ [][NextAverages]_vars

\* The periods of the history, and those that qualify for each average.
Periods == 1..Len(metrics.revenue.keys)
RevenueAt(i) == metrics.revenue.at[metrics.revenue.keys[i]]
EbitAt(i) == metrics.ebit.at[metrics.revenue.keys[i]]
TaxAt(i) == metrics.tax_expense.at[metrics.revenue.keys[i]]
CapexAt(i) == metrics.capex.at[metrics.revenue.keys[i]]
WithRevenue == {i \in Periods : RevenueAt(i) # Zero}
WithProfit == {i \in Periods : EbitAt(i)[1] > 0}
\* adjacent pairs (i, i+1) whose older period i+1 has revenue
GrowthPairs == {i \in Periods : i + 1 \in Periods /\ RevenueAt(i + 1) # Zero}

\* The sum of r(i) over the periods of S.
RECURSIVE SumOver(_, _)
SumOver(S, r) ==
    IF S = {} THEN Zero
    ELSE LET i == CHOOSE j \in S : TRUE
         IN  Add(r[i], SumOver(S \ {i}, r))

\* value is the mean of r over S when S has a period, and the fallback otherwise
MeanOverOr(value, S, r, fallback) ==
    IF S = {} THEN value = fallback
    ELSE Mul(value, Num(Cardinality(S))) = SumOver(S, r)

MarginOf == [i \in WithRevenue |-> Div(EbitAt(i), RevenueAt(i))]
TaxRateOf == [i \in WithProfit |-> Div(FAbs(TaxAt(i)), EbitAt(i))]
CapexRatioOf == [i \in WithRevenue |-> Div(FAbs(CapexAt(i)), RevenueAt(i))]
GrowthOf == [i \in GrowthPairs |->
                Div(Sub(RevenueAt(i), RevenueAt(i + 1)), FAbs(RevenueAt(i + 1)))]

\* C8: when every period has zero revenue, revenue growth, EBIT margin and capex
\* ratio are 0.05, 0.15 and 0.05, and the tax rate is 0.25 whenever no period has
\* a positive EBIT; each average is its fallback when nothing qualifies for it
\* and the mean of the qualifying ratios otherwise, so all four are finite
\* numbers: nothing was divided by zero.
C8_FallbackWhenNothingQualifies ==
    pc = "averaged" =>
        /\ WithRevenue = {} =>
              /\ assumptions.revenue_growth = Q(5, 100)
              /\ assumptions.ebit_margin = Q(15, 100)
              /\ assumptions.capex_ratio = Q(5, 100)
        /\ WithProfit = {} => assumptions.tax_rate = Q(25, 100)
        /\ MeanOverOr(assumptions.revenue_growth, GrowthPairs, GrowthOf, Q(5, 100))
        /\ MeanOverOr(assumptions.ebit_margin, WithRevenue, MarginOf, Q(15, 100))
        /\ MeanOverOr(assumptions.tax_rate, WithProfit, TaxRateOf, Q(25, 100))
        /\ MeanOverOr(assumptions.capex_ratio, WithRevenue, CapexRatioOf, Q(5, 100))
        /\ IsFinite(assumptions.revenue_growth) /\ IsFinite(assumptions.ebit_margin)
        /\ IsFinite(assumptions.tax_rate) /\ IsFinite(assumptions.capex_ratio)
\* three periods without revenue, one of them with a profit
C8_Witness ==
    /\ pc = "averaged"
    /\ Cardinality(Periods) = HistoryPeriods
    /\ WithRevenue = {} /\ WithProfit # {}
    /\ assumptions.revenue_growth = Q(5, 100)
    /\ assumptions.tax_rate # Q(25, 100)

\* C9 as stated: each of the four assumptions is its fallback constant whenever
\* fewer than two usable periods exist for it, one usable period included.
C9_FallbackBelowTwoPeriods ==
    pc = "averaged" =>
        /\ Cardinality(Periods) < 2 => assumptions.revenue_growth = Q(5, 100)
        /\ Cardinality(WithRevenue) < 2 => assumptions.ebit_margin = Q(15, 100)
        /\ Cardinality(WithProfit) < 2 => assumptions.tax_rate = Q(25, 100)
        /\ Cardinality(WithRevenue) < 2 => assumptions.capex_ratio = Q(5, 100)

\* C9 as amended: each assumption is its fallback constant when no usable period
\* exists for it (for revenue growth: no adjacent pair whose older period has
\* revenue, as in every history of fewer than two periods); with exactly one
\* usable period the EBIT margin, tax rate and capex ratio are that period's
\* ratio, and one usable pair gives that pair's growth.
C9_FallbackOnlyWithoutPeriods ==
    pc = "averaged" =>
        /\ Cardinality(Periods) < 2 => assumptions.revenue_growth = Q(5, 100)
        /\ GrowthPairs = {} => assumptions.revenue_growth = Q(5, 100)
        /\ WithRevenue = {} => /\ assumptions.ebit_margin = Q(15, 100)
                               /\ assumptions.capex_ratio = Q(5, 100)
        /\ WithProfit = {} => assumptions.tax_rate = Q(25, 100)
        /\ \A i \in Periods :
              /\ GrowthPairs = {i} => assumptions.revenue_growth = GrowthOf[i]
              /\ WithRevenue = {i} => /\ assumptions.ebit_margin = MarginOf[i]
                                      /\ assumptions.capex_ratio = CapexRatioOf[i]
              /\ WithProfit = {i} => assumptions.tax_rate = TaxRateOf[i]
\* exactly one usable period, whose margin and tax rate are not the fallbacks
C9_Witness ==
    /\ pc = "averaged"
    /\ Cardinality(WithRevenue) = 1 /\ Cardinality(WithProfit) = 1
    /\ assumptions.ebit_margin # Q(15, 100)
    /\ assumptions.tax_rate # Q(25, 100)
    /\ assumptions.capex_ratio # Q(5, 100)

----------------------------------------------------------------------------
(* Revenue growth over revenue histories (specification SpecGrowth) *)

\* Revenues of a period: a loss-making negative one, none, and the 10% series.
GrowthRevenues == {-100, 0, 100, 110, 121}

InitGrowth ==
    /\ pc = "given"
    /\ \E n \in 0..HistoryPeriods :
          \E rs \in [1..n -> GrowthRevenues] :
              metrics = MetricsOf([i \in 1..n |->
                                     [revenue |-> Num(rs[i]), ebit |-> Num(20),
                                      tax_expense |-> Num(-5), capex |-> Num(-10)]])
    /\ assumptions = None
    /\ request = None /\ provider = None /\ dcf = None /\ store = None
    /\ trace = <<>> /\ escaped = FALSE /\ statements = None /\ cashflows = None
    /\ figure = None /\ table = None

SpecGrowth == InitGrowth /\ [][NextAverages]_vars

\* The revenues walked from the oldest period (1) to the newest.
OldestFirst == [j \in Periods |-> RevenueAt(Len(metrics.revenue.keys) + 1 - j)]
\* the steps j -> j+1 of that walk whose denominator period j has revenue
Steps == {j \in Periods : j + 1 \in Periods /\ OldestFirst[j] # Zero}
NoNegativeRevenue == \A j \in Periods : OldestFirst[j][1] >= 0

\* C15: revenue growth is the mean, over the adjacent pairs walked from the
\* oldest to the newest period, of (newer - older) / older; a pair is skipped
\* exactly when the older period's revenue is zero; for every revenue sequence.
C15_GrowthOldestToNewest ==
    pc = "averaged" =>
        MeanOverOr(assumptions.revenue_growth, Steps,
                   [j \in Steps |-> Div(Sub(OldestFirst[j + 1], OldestFirst[j]),
                                        OldestFirst[j])],
                   Q(5, 100))

\* C15 as amended: the growth of a pair is (newer - older) / |older|, which is
\* (newer - older) / older for every history without a negative revenue.
C15_GrowthOverAbsoluteOlder ==
    pc = "averaged" =>
        /\ MeanOverOr(assumptions.revenue_growth, Steps,
                      [j \in Steps |-> Div(Sub(OldestFirst[j + 1], OldestFirst[j]),
                                           FAbs(OldestFirst[j]))],
                      Q(5, 100))
        /\ NoNegativeRevenue => C15_GrowthOldestToNewest
\* 100, 110, 121 from the oldest to the newest period: 10% growth
C15_Witness ==
    /\ pc = "averaged"
    /\ OldestFirst = <<Num(100), Num(110), Num(121)>>
    /\ assumptions.revenue_growth = Q(10, 100)

----------------------------------------------------------------------------
(* get_key_metrics on its own (specification SpecMetrics) *)

\* A row whose cell of period nan_at is missing (nan_at = 0: no cell is missing).
RowWithGap(n, v, nan_at) == [i \in 1..n |-> IF i = nan_at THEN NaN ELSE Num(v)]

\* The label the provider gives the revenue row; the last one is no spelling
\* _safe_extract tries.
RevenueLabels == {"Total Revenue", "TotalRevenue", "total revenue", "Revenues"}

IncomeFrame(n, label, nan_at) ==
    Frame(n, [r \in {label, "EBIT"} |->
                IF r = "EBIT" THEN Flat(n, 20) ELSE RowWithGap(n, 100, nan_at)])

\* A balance sheet of m periods; each working-capital row is absent, complete,
\* or present with the cell of the most recent period missing.
RowStates == {"absent", "complete", "gap"}
BalanceFrame(m, assets, liabilities) ==
    Frame(m, [r \in {"Total Debt"}
                    \cup (IF assets = "absent" THEN {} ELSE {"Current Assets"})
                    \cup (IF liabilities = "absent" THEN {} ELSE {"Current Liabilities"}) |->
                CASE r = "Total Debt" -> Flat(m, 1000)
                  [] r = "Current Assets" ->
                        RowWithGap(m, 30, IF assets = "gap" THEN 1 ELSE 0)
                  [] r = "Current Liabilities" ->
                        RowWithGap(m, 20, IF liabilities = "gap" THEN 1 ELSE 0)])

CashFrame(m) == Frame(m, [r \in {"Capital Expenditure"} |-> RowWithGap(m, -10, m)])

InitMetrics ==
    /\ pc = "fetched"
    /\ \E n \in 0..MaxColumns, m \in 0..MaxColumns :
          \E label \in RevenueLabels, nan_at \in 0..n, assets \in RowStates,
             liabilities \in RowStates :
                statements = [income_statement |-> IncomeFrame(n, label, nan_at),
                              balance_sheet |-> BalanceFrame(m, assets, liabilities),
                              cash_flow |-> CashFrame(m)]
    /\ metrics = None
    /\ request = None /\ provider = None /\ dcf = None /\ store = None
    /\ trace = <<>> /\ escaped = FALSE /\ assumptions = None /\ cashflows = None
    /\ figure = None /\ table = None

\* self.financial_data = self.data_fetcher.get_key_metrics()
Extract ==
    /\ pc = "fetched"
    /\ metrics' = get_key_metrics(statements)
    /\ pc' = "extracted"
    /\ UNCHANGED <<request, provider, dcf, store, trace, escaped,
                   statements, assumptions, cashflows, views>>

NextMetrics == Extract

SpecMetrics == InitMetrics /\ [][NextMetrics]_vars

\* C10: for statements with at least one period, every metric get_key_metrics
\* returns, working_capital included, has exactly the period keys of revenue,
\* and every value is a number, never null or NaN.
C10_ZeroFill ==
    (pc = "extracted" /\ statements.income_statement.columns # <<>>)
    => /\ metrics # None
       /\ \A f \in DOMAIN metrics :
             /\ metrics[f].keys = metrics.revenue.keys
             /\ \A y \in Range(metrics[f].keys) : IsFinite(metrics[f].at[y])

----------------------------------------------------------------------------
(* project_cash_flows on its own (specification SpecProjection) *)

\* Histories for the projection: periods with EBIT 0 or 20, a tax expense and
\* a capital expenditure, so that the revenue decides growth and base revenue.
ProjectionPeriods ==
    {p \in PeriodInputs :
        p.ebit # Num(-20) /\ p.tax_expense = Num(-5) /\ p.capex = Num(-10)}

\* self.projection_years: an empty input box, a fractional number, 0..MaxYears
HorizonInputs == {None, Q(5, 2)} \cup {Num(y) : y \in 0..MaxYears}

\* The fields of the DCFModel object that project_cash_flows reads.
InitProjection ==
    /\ pc = "built"
    /\ \E n \in 0..HistoryPeriods, years \in HorizonInputs :
          \E ps \in [1..n -> ProjectionPeriods] :
              dcf = [projection_years |-> years, financial_data |-> MetricsOf(ps)]
    /\ cashflows = None
    /\ request = None /\ provider = None /\ store = None /\ trace = <<>>
    /\ escaped = FALSE /\ statements = None /\ metrics = None /\ assumptions = None
    /\ figure = None /\ table = None

\* projections = self.project_cash_flows()
Project ==
    /\ pc = "built"
    /\ assumptions' = calculate_historical_averages(dcf.financial_data)
    /\ cashflows' = project_cash_flows(dcf)
    /\ pc' = "projected"
    /\ UNCHANGED <<request, provider, dcf, store, trace, escaped, statements, metrics, views>>

NextProjection == Project

SpecProjection == InitProjection /\ [][NextProjection]_vars

\* project_cash_flows returned a list of entries.
ProjectionReturned == pc = "projected" /\ ~Raised(cashflows) /\ cashflows.type = "list"
\* R0: the revenue of the most recent period
BaseRevenue == dcf.financial_data.revenue.at[dcf.financial_data.revenue.keys[1]]

====
